---- MODULE Spec2Model ----
(***************************************************************************)
(* Model of src/app.py: a Streamlit dashboard script.  Every session start *)
(* and every user interaction runs the whole script top to bottom:         *)
(* load_data (memoised by st.cache_data) -> restrict to the climate types  *)
(* and fill missing values -> sidebar widgets -> filter -> metrics ->      *)
(* chart data.                                                             *)
(***************************************************************************)
EXTENDS Integers, Sequences, FiniteSets, TLC

VARIABLES
    files,              \* the two candidate CSV files under base_dir
    cache,              \* st.cache_data's memo of load_data()
    reads,              \* number of pd.read_csv calls made so far
    file_path,          \* the path handed to the last pd.read_csv call
    df,                 \* value load_data() returned in the last pass
    error,              \* the st.error message shown by the last pass
    outcome,            \* how the last pass ended
    df_climate,         \* line 40-47
    widgets_live,       \* Streamlit holds state for the sidebar widgets
    selected_years,     \* value of the slider, <<low, high>>
    selected_disasters, \* value of the multiselect
    filtered_df,        \* line 69
    metrics,            \* the four st.metric values, lines 72-81
    yearly_trends,      \* line 85
    disaster_counts     \* line 99

vars == <<files, cache, reads, file_path, df, error, outcome, df_climate,
          widgets_live, selected_years, selected_disasters, filtered_df,
          metrics, yearly_trends, disaster_counts>>

(***************************************************************************)
(* Bounds of the model.                                                    *)
(***************************************************************************)
MaxRows == 2            \* longest dataset of SpecData
MaxSessionRows == 1     \* longest dataset of Spec

(***************************************************************************)
(* Numbers.  A cell of a numeric column is NaN (missing) or a rational     *)
(* num/den in lowest terms with den > 0 (the mean of integers is a         *)
(* rational).                                                              *)
(***************************************************************************)
RECURSIVE GCD(_, _)
GCD(a, b) == IF b = 0 THEN a ELSE GCD(b, a % b)

NaN == [nan |-> TRUE, num |-> 0, den |-> 1]

Rat(n, d) ==
    LET g == GCD(n, d)
    IN  [nan |-> FALSE, num |-> n \div g, den |-> d \div g]

Num(n) == [nan |-> FALSE, num |-> n, den |-> 1]

\* float addition; NaN is contagious
Plus(a, b) ==
    IF a.nan \/ b.nan THEN NaN
    ELSE Rat(a.num * b.den + b.num * a.den, a.den * b.den)

(***************************************************************************)
(* pandas operations used by the script.                                   *)
(***************************************************************************)
\* isin where an empty list of values selects everything
isin_or_all(v, values) == values = {} \/ v \in values

\* Series.isin(values); only membership matters, so a list of values is
\* held as the set of its elements
isin(v, values) == v \in values

\* between with inclusive="neither"
between_exclusive(v, left, right) == left < v /\ v < right

\* Series.between(left, right), inclusive="both" by default
between(v, left, right) == left <= v /\ v <= right

\* Series.fillna(value) on one cell
fillna(v, value) == IF v.nan THEN value ELSE v

\* Series.sum(), skipna=True by default: missing cells are skipped, and the
\* sum of no cells is 0
RECURSIVE sum(_)
sum(col) ==
    IF col = <<>> THEN Num(0)
    ELSE IF Head(col).nan THEN sum(Tail(col))
    ELSE Plus(Head(col), sum(Tail(col)))

\* Series.count(): the number of non-missing cells
RECURSIVE count(_)
count(col) ==
    IF col = <<>> THEN 0
    ELSE (IF Head(col).nan THEN 0 ELSE 1) + count(Tail(col))

\* Series.mean(), skipna=True by default: NaN when no cell is present
mean(col) ==
    IF count(col) = 0 THEN NaN
    ELSE LET s == sum(col) IN Rat(s.num, s.den * count(col))

\* Series.unique(): distinct values in order of first appearance
RECURSIVE unique(_)
unique(col) ==
    IF col = <<>> THEN <<>>
    ELSE LET init == unique(SubSeq(col, 1, Len(col) - 1))
             last == col[Len(col)]
         IN  IF \E i \in DOMAIN init : init[i] = last
             THEN init ELSE Append(init, last)

\* sorted(iterable) on integers: ascending
RECURSIVE sorted(_)
sorted(s) ==
    IF s = <<>> THEN <<>>
    ELSE LET m == CHOOSE i \in DOMAIN s :
                      \A j \in DOMAIN s : s[i] < s[j] \/ (s[i] = s[j] /\ i <= j)
             rest == [k \in 1..(Len(s) - 1) |-> IF k < m THEN s[k] ELSE s[k + 1]]
         IN  <<s[m]>> \o sorted(rest)

\* min(list) and max(list) of a non-empty list; on an empty list Python
\* raises ValueError, which the script run models where it calls them
min(s) == CHOOSE v \in {s[i] : i \in DOMAIN s} : \A i \in DOMAIN s : v <= s[i]
max(s) == CHOOSE v \in {s[i] : i \in DOMAIN s} : \A i \in DOMAIN s : v >= s[i]

\* frame[name]: one column of a frame
Column(frame, name) == [i \in 1..Len(frame) |-> frame[i][name]]

\* frame[mask]: the rows whose mask is set, in the frame's order
RECURSIVE Select(_, _)
Select(frame, mask) ==
    IF frame = <<>> THEN <<>>
    ELSE LET n == Len(frame)
             init == Select(SubSeq(frame, 1, n - 1), SubSeq(mask, 1, n - 1))
         IN  IF mask[n] THEN Append(init, frame[n]) ELSE init

\* format(x, ",.0f") up to the digit grouping: x rounded to an integer,
\* ties to even
format_0f(x) ==
    LET q == x.num \div x.den
        r == x.num % x.den
    IN  IF 2 * r < x.den THEN q
        ELSE IF 2 * r > x.den THEN q + 1
        ELSE IF q % 2 = 0 THEN q ELSE q + 1

(***************************************************************************)
(* load_data, lines 18-34.                                                 *)
(***************************************************************************)
Primary == "natural_disasters.csv"
Fallback == "data2.csv"
FileNames == {Primary, Fallback}

\* what is at a path: nothing, a file pd.read_csv raises on, or a table
Absent == [kind |-> "absent", rows |-> <<>>]
Corrupt == [kind |-> "corrupt", rows |-> <<>>]
Csv(rows) == [kind |-> "csv", rows |-> rows]

\* the values of df: None, or a DataFrame
None == [ok |-> FALSE, rows |-> <<>>]
DataFrame(rows) == [ok |-> TRUE, rows |-> rows]

FileNotFound == "Error: Neither 'natural_disasters.csv' nor 'data2.csv' found."
ParseError == "Error loading dataset"
ValueError == "ValueError: min() arg is an empty sequence"

\* os.path.exists(file_path)
exists(path) == files[path].kind # "absent"

\* lines 29-34: pd.read_csv(file_path, encoding='latin-1') inside the try
read_csv(path) ==
    IF files[path].kind = "csv"
    THEN [df |-> DataFrame(files[path].rows), error |-> "", read |-> <<path>>]
    ELSE [df |-> None, error |-> ParseError, read |-> <<path>>]

\* the two candidates tried in the other order
load_data_fallback_first ==
    IF ~exists(Fallback)
    THEN IF ~exists(Primary)
         THEN [df |-> None, error |-> FileNotFound, read |-> <<>>]
         ELSE read_csv(Primary)
    ELSE read_csv(Fallback)

\* one execution of the body of load_data: the value returned, the st.error
\* message emitted and the path read, if any
load_data ==
    IF ~exists(Primary)
    THEN IF ~exists(Fallback)
         THEN [df |-> None, error |-> FileNotFound, read |-> <<>>]
         ELSE read_csv(Fallback)
    ELSE read_csv(Primary)

\* a memo that keeps only a DataFrame, so a failed load is tried again
cache_write_unless_none(call) ==
    IF call.df.ok THEN [hit |-> TRUE, df |-> call.df, error |-> call.error]
    ELSE cache

\* @st.cache_data, what is stored after the body ran: the returned value
\* (None included) and the st elements the body emitted, to replay them
cache_write(call) == [hit |-> TRUE, df |-> call.df, error |-> call.error]

\* load_data without the decorator: the body runs in every pass
cache_data_missing ==
    [df |-> load_data.df, error |-> load_data.error, read |-> load_data.read,
     cache |-> [hit |-> TRUE, df |-> load_data.df, error |-> load_data.error]]

\* @st.cache_data, a call of load_data(): a hit replays the stored entry and
\* does not run the body
cache_data ==
    IF cache.hit
    THEN [df |-> cache.df, error |-> cache.error, read |-> <<>>, cache |-> cache]
    ELSE LET call == load_data
         IN  [df |-> call.df, error |-> call.error, read |-> call.read,
              cache |-> cache_write(call)]

(***************************************************************************)
(* The dashboard, lines 38-117.                                            *)
(***************************************************************************)
\* line 39
climate_disasters == {"Flood", "Storm", "Wildfire", "Extreme temperature"}

\* line 40: df[df['Disaster Type'].isin(climate_disasters)].copy()
restrict(rows) ==
    Select(rows, [i \in 1..Len(rows) |-> isin(rows[i].DisasterType, climate_disasters)])

\* the damages column filled like the other two
damages_fill_zero(frame) == Num(0)

\* line 46: the fill value of the damages column
damages_fill(frame) == mean(Column(frame, "TotalDamages"))

\* lines 43-47: the three fillna assignments on the copy
clean(frame) ==
    LET m == damages_fill(frame)
    IN  [i \in 1..Len(frame) |->
            [frame[i] EXCEPT !.TotalDeaths = fillna(@, Num(0)),
                             !.TotalAffected = fillna(@, Num(0)),
                             !.TotalDamages = fillna(@, m)]]

\* df_climate kept across runs and narrowed by each filter, instead of
\* being rebuilt from df
climate_frame_patched(loaded) ==
    IF outcome = "rendered" THEN filtered_df ELSE clean(restrict(loaded.rows))

\* lines 40-47: df_climate, rebuilt from df in every run
climate_frame(loaded) == clean(restrict(loaded.rows))

\* line 51
years_of(frame) == sorted(unique(Column(frame, "Year")))

\* lines 60-61: the multiselect's options and default (their order is
\* presentational)
options_of(frame) == {frame[i].DisasterType : i \in 1..Len(frame)}

\* lines 65-69: mask and filtered_df
apply_filters(frame, years, disasters) ==
    Select(frame, [i \in 1..Len(frame) |->
                      /\ between(frame[i].Year, years[1], years[2])
                      /\ isin(frame[i].DisasterType, disasters)])

\* the third metric summing the column of the second
summarize_copied(view) ==
    LET deaths == sum(Column(view, "TotalDeaths"))
        affected == sum(Column(view, "TotalDeaths"))
        total_damages == sum(Column(view, "TotalDamages"))
    IN  [events |-> Len(view), deaths |-> deaths, affected |-> affected,
         damages |-> total_damages,
         shown |-> <<Len(view), format_0f(deaths), format_0f(affected),
                     format_0f(total_damages)>>]

\* lines 72-81: the four metrics; `shown` is what the f-strings display
summarize(view) ==
    LET deaths == sum(Column(view, "TotalDeaths"))
        affected == sum(Column(view, "TotalAffected"))
        total_damages == sum(Column(view, "TotalDamages"))
    IN  [events |-> Len(view), deaths |-> deaths, affected |-> affected,
         damages |-> total_damages,
         shown |-> <<Len(view), format_0f(deaths), format_0f(affected),
                     format_0f(total_damages)>>]

\* line 85: filtered_df.groupby('Year').size(), keys ascending
groupby_size(view) ==
    LET keys == years_of(view)
    IN  [k \in 1..Len(keys) |->
            <<keys[k], Cardinality({i \in 1..Len(view) : view[i].Year = keys[k]})>>]

\* descending by count, ties in the given order
RECURSIVE sort_counts(_)
sort_counts(s) ==
    IF s = <<>> THEN <<>>
    ELSE LET m == CHOOSE i \in DOMAIN s :
                      \A j \in DOMAIN s : s[i][2] > s[j][2] \/ (s[i][2] = s[j][2] /\ i <= j)
             rest == [k \in 1..(Len(s) - 1) |-> IF k < m THEN s[k] ELSE s[k + 1]]
         IN  <<s[m]>> \o sort_counts(rest)

\* line 99: filtered_df['Disaster Type'].value_counts()
value_counts(view) ==
    LET keys == unique(Column(view, "DisasterType"))
    IN  sort_counts([k \in 1..Len(keys) |->
            <<keys[k], Cardinality({i \in 1..Len(view) : view[i].DisasterType = keys[k]})>>])

NoMetrics == [events |-> 0, deaths |-> Num(0), affected |-> Num(0),
              damages |-> Num(0), shown |-> <<>>]

(***************************************************************************)
(* One run of the script, lines 37-117, given what load_data() returned    *)
(* and the state Streamlit holds for the widgets (live: the slider and the *)
(* multiselect already have a value; otherwise they take their defaults).  *)
(***************************************************************************)
script(loaded, message, live, slider, multiselect) ==
    IF ~loaded.ok
    THEN \* line 38: df is None, nothing below runs
         [outcome |-> "load_error", error |-> message, df_climate |-> <<>>,
          widgets_live |-> FALSE, selected_years |-> <<>>,
          selected_disasters |-> {}, filtered_df |-> <<>>,
          metrics |-> NoMetrics, yearly_trends |-> <<>>, disaster_counts |-> <<>>]
    ELSE LET frame == climate_frame(loaded)
             years == years_of(frame)
         IN  IF years = <<>>
             THEN \* line 54: min(years) raises, the run stops there
                  [outcome |-> "raised", error |-> ValueError, df_climate |-> frame,
                   widgets_live |-> FALSE, selected_years |-> <<>>,
                   selected_disasters |-> {}, filtered_df |-> <<>>,
                   metrics |-> NoMetrics, yearly_trends |-> <<>>,
                   disaster_counts |-> <<>>]
             ELSE LET chosen_years == IF live THEN slider
                                      ELSE <<min(years), max(years)>>
                      chosen == IF live THEN multiselect ELSE options_of(frame)
                      view == apply_filters(frame, chosen_years, chosen)
                  IN  [outcome |-> "rendered", error |-> message,
                       df_climate |-> frame, widgets_live |-> TRUE,
                       selected_years |-> chosen_years,
                       selected_disasters |-> chosen, filtered_df |-> view,
                       metrics |-> summarize(view),
                       yearly_trends |-> groupby_size(view),
                       disaster_counts |-> value_counts(view)]

Run(live, slider, multiselect) ==
    \E call \in {cache_data} :
    \E run \in {script(call.df, call.error, live, slider, multiselect)} :
        /\ cache' = call.cache
        /\ reads' = reads + Len(call.read)
        /\ file_path' = IF call.read = <<>> THEN file_path ELSE call.read[1]
        /\ df' = call.df
        /\ error' = run.error
        /\ outcome' = run.outcome
        /\ df_climate' = run.df_climate
        /\ widgets_live' = run.widgets_live
        /\ selected_years' = run.selected_years
        /\ selected_disasters' = run.selected_disasters
        /\ filtered_df' = run.filtered_df
        /\ metrics' = run.metrics
        /\ yearly_trends' = run.yearly_trends
        /\ disaster_counts' = run.disaster_counts
        /\ UNCHANGED files

\* a browser session starts (or the page is reloaded): the widgets have no
\* state yet; the cache is the process's and is kept
NewSession == Run(FALSE, <<>>, {})

\* the user asks for a rerun without touching a widget
Rerun ==
    /\ outcome # "none"
    /\ Run(widgets_live, selected_years, selected_disasters)

\* the user moves the slider or changes the multiselect; both are bounded by
\* what the last run rendered (lines 54-55 and 60)
Interact ==
    /\ outcome = "rendered"
    /\ LET years == years_of(df_climate)
       IN  \E low \in min(years)..max(years), high \in min(years)..max(years),
              chosen \in SUBSET options_of(df_climate) :
               /\ low <= high
               /\ <<low, high>> # selected_years \/ chosen # selected_disasters
               /\ Run(TRUE, <<low, high>>, chosen)

(***************************************************************************)
(* Input domains.                                                          *)
(***************************************************************************)
YearDomain == {2000, 2001}
TypeDomain == {"Flood", "Storm", "Earthquake"}
\* <<Total Deaths, Total Affected, Total Damages>> of a row
Impacts == {<<NaN, Num(7), Num(10)>>, <<Num(5), NaN, NaN>>, <<Num(5), Num(7), Num(30)>>}

Row(y, t, i) == [Year |-> y, DisasterType |-> t, TotalDeaths |-> i[1],
                 TotalAffected |-> i[2], TotalDamages |-> i[3]]

DataRows == {Row(y, t, i) : y \in YearDomain, t \in TypeDomain, i \in Impacts}

SessionRows == {Row(2000, "Flood", <<NaN, Num(7), Num(10)>>),
                Row(2001, "Storm", <<Num(5), NaN, NaN>>),
                Row(2000, "Earthquake", <<Num(5), Num(7), Num(30)>>)}

SeqsUpTo(S, n) == UNION {[1..k -> S] : k \in 0..n}

Blank ==
    /\ cache = [hit |-> FALSE, df |-> None, error |-> ""]
    /\ reads = 0
    /\ file_path = ""
    /\ df = None
    /\ error = ""
    /\ outcome = "none"
    /\ df_climate = <<>>
    /\ widgets_live = FALSE
    /\ selected_years = <<>>
    /\ selected_disasters = {}
    /\ filtered_df = <<>>
    /\ metrics = NoMetrics
    /\ yearly_trends = <<>>
    /\ disaster_counts = <<>>

(***************************************************************************)
(* Spec: the process's lifetime with the two files coming and going.       *)
(***************************************************************************)
SessionFiles == {Absent, Corrupt} \cup {Csv(d) : d \in SeqsUpTo(SessionRows, MaxSessionRows)}

\* the environment creates, replaces, damages or removes a candidate file
FsChange ==
    /\ \E f \in FileNames, s \in SessionFiles :
           /\ s # files[f]
           /\ files' = [files EXCEPT ![f] = s]
    /\ UNCHANGED <<cache, reads, file_path, df, error, outcome, df_climate,
                   widgets_live, selected_years, selected_disasters,
                   filtered_df, metrics, yearly_trends, disaster_counts>>

Init ==
    /\ files \in [FileNames -> SessionFiles]
    /\ Blank

Next == NewSession \/ Rerun \/ Interact \/ FsChange

Spec == Init /\ [][Next]_vars

(***************************************************************************)
(* SpecData: the pipeline over every dataset of the bounded domain, held   *)
(* in the primary file.                                                    *)
(***************************************************************************)
InitData ==
    /\ \E d \in SeqsUpTo(DataRows, MaxRows) :
           files = [f \in FileNames |-> IF f = Primary THEN Csv(d) ELSE Absent]
    /\ Blank

NextData == NewSession \/ Rerun \/ Interact

SpecData == InitData /\ [][NextData]_vars

(***************************************************************************)
(* Vocabulary of the properties, written from the data model and not from  *)
(* the operators above.                                                    *)
(***************************************************************************)
AllowList == {"Flood", "Storm", "Wildfire", "Extreme temperature"}

Rows(frame) == {frame[i] : i \in 1..Len(frame)}
Occurrences(frame, r) == Cardinality({i \in 1..Len(frame) : frame[i] = r})

\* the row satisfies the current filter criteria
Qualifies(r) ==
    /\ selected_years[1] <= r.Year
    /\ r.Year <= selected_years[2]
    /\ r.DisasterType \in selected_disasters

\* positions of df_climate that satisfy the current criteria
Qualifying == {i \in 1..Len(df_climate) : Qualifies(df_climate[i])}

\* the sum of a field over a set of positions of a frame as an unreduced
\* fraction <<n, d>>; a missing cell adds nothing
RECURSIVE FieldSum(_, _, _)
FieldSum(frame, S, field) ==
    IF S = {} THEN <<0, 1>>
    ELSE LET i == CHOOSE j \in S : TRUE
             rest == FieldSum(frame, S \ {i}, field)
             v == frame[i][field]
         IN  IF v.nan THEN rest
             ELSE <<rest[1] * v.den + v.num * rest[2], rest[2] * v.den>>

\* the number x equals the fraction q
Equals(x, q) == ~x.nan /\ x.num * q[2] = q[1] * x.den

\* positions of the loaded dataset whose type is in the allow-list
Allowed == {j \in 1..Len(df.rows) : df.rows[j].DisasterType \in AllowList}
\* the position in the dataset of the k-th record of ClimateSubset
Origin(k) == CHOOSE j \in Allowed : Cardinality({a \in Allowed : a <= j}) = k
\* allow-listed positions with damages present
WithDamages == {j \in Allowed : ~df.rows[j].TotalDamages.nan}

Downstream == outcome \in {"rendered", "raised"}
DefaultCriteria ==
    /\ selected_years = <<min(years_of(df_climate)), max(years_of(df_climate))>>
    /\ selected_disasters = options_of(df_climate)

(***************************************************************************)
(* Properties of the pipeline, checked under SpecData.                     *)
(***************************************************************************)
\* C1: a record of ClimateSubset is in the FilteredView if and only if
\* low <= year <= high, both bounds inclusive, and its disasterType is one
\* of selectedTypes: the view holds every qualifying record as often as
\* ClimateSubset does and no other record.
FilterExact ==
    outcome = "rendered" =>
        \A r \in Rows(df_climate) \cup Rows(filtered_df) :
            Occurrences(filtered_df, r) =
                IF Qualifies(r) THEN Occurrences(df_climate, r) ELSE 0

\* a view that keeps a record on each bound of the year range and drops a
\* record of a selected type for its year
FilterExactWitness ==
    /\ outcome = "rendered"
    /\ selected_years[1] = selected_years[2]
    /\ \E i \in 1..Len(filtered_df) : filtered_df[i].Year = selected_years[1]
    /\ \E i \in 1..Len(df_climate) :
           /\ df_climate[i].DisasterType \in selected_disasters
           /\ df_climate[i].Year # selected_years[1]

\* C4: every record of ClimateSubset has non-missing totalDeaths,
\* totalAffected and totalDamagesThousandsUSD, whatever values the loaded
\* dataset misses.
SubsetComplete ==
    Downstream =>
        \A i \in 1..Len(df_climate) :
            /\ ~df_climate[i].TotalDeaths.nan
            /\ ~df_climate[i].TotalAffected.nan
            /\ ~df_climate[i].TotalDamages.nan

MetricsExact ==
    outcome = "rendered" =>
        /\ metrics.events = Cardinality(Qualifying)
        /\ metrics.events = Len(filtered_df)
        /\ Equals(metrics.deaths, FieldSum(df_climate, Qualifying, "TotalDeaths"))
        /\ Equals(metrics.affected, FieldSum(df_climate, Qualifying, "TotalAffected"))
        /\ Equals(metrics.damages, FieldSum(df_climate, Qualifying, "TotalDamages"))

\* a non-empty view that leaves out a record with casualties
MetricsExactWitness ==
    /\ outcome = "rendered"
    /\ metrics.events = 1
    /\ metrics.deaths.num > 0
    /\ metrics.deaths # metrics.affected
    /\ \E i \in 1..Len(df_climate) :
           /\ ~Qualifies(df_climate[i])
           /\ df_climate[i].TotalDeaths.num > 0

GracefulOnEmpty ==
    df.ok /\ outcome # "none" =>
        /\ outcome = "rendered"
        /\ df_climate = <<>> =>
               /\ filtered_df = <<>>
               /\ metrics.events = 0
               /\ metrics.shown = <<0, 0, 0, 0>>
               /\ yearly_trends = <<>>
               /\ disaster_counts = <<>>

\* C10: filtering never changes ClimateSubset, and the current view is the
\* filter applied to ClimateSubset under the current criteria, whatever
\* criteria came before.
FilterPure ==
    /\ [](outcome = "rendered" =>
              filtered_df = apply_filters(df_climate, selected_years, selected_disasters))
    /\ [][outcome = "rendered" => df_climate' = df_climate /\ outcome' = "rendered"]_vars

\* criteria that narrow both the year range and the types, leaving a view
\* smaller than ClimateSubset and not empty
FilterPureWitness ==
    /\ outcome = "rendered"
    /\ selected_years # <<min(years_of(df_climate)), max(years_of(df_climate))>>
    /\ selected_disasters # options_of(df_climate)
    /\ filtered_df # <<>>
    /\ Len(filtered_df) < Len(df_climate)

(***************************************************************************)
(* Properties of loading, checked under Spec.                              *)
(***************************************************************************)
\* C2: when load_data runs, the primary file is the one read if it exists;
\* with the primary absent and the fallback present and parseable the
\* fallback's contents are returned; with both absent the load fails with
\* FileNotFound, returns no dataset and reads no file.
LoadOrder ==
    [][~cache.hit /\ cache'.hit =>
          /\ files[Primary] # Absent =>
                 /\ reads' = reads + 1
                 /\ file_path' = Primary
                 /\ files[Primary].kind = "csv" => df' = DataFrame(files[Primary].rows)
          /\ files[Primary] = Absent /\ files[Fallback].kind = "csv" =>
                 /\ reads' = reads + 1
                 /\ file_path' = Fallback
                 /\ df' = DataFrame(files[Fallback].rows)
          /\ files[Primary] = Absent /\ files[Fallback] = Absent =>
                 /\ reads' = reads
                 /\ df' = None
                 /\ error' = FileNotFound
                 /\ outcome' = "load_error"]_vars

\* the fallback was read, the primary being absent, and its rows rendered
LoadOrderWitness ==
    /\ files[Primary] = Absent
    /\ file_path = Fallback
    /\ df.ok
    /\ df = DataFrame(files[Fallback].rows)
    /\ df.rows # <<>>
    /\ outcome = "rendered"

\* C3: after load_data has failed, no downstream step runs, in that pass or
\* in any later one.
LoadFailureTerminal ==
    /\ [](outcome = "load_error" =>
              /\ ~df.ok
              /\ error \in {FileNotFound, ParseError}
              /\ df_climate = <<>>
              /\ filtered_df = <<>>
              /\ metrics = NoMetrics
              /\ yearly_trends = <<>>
              /\ disaster_counts = <<>>
              /\ ~widgets_live)
    /\ [][outcome = "load_error" => outcome' = "load_error"]_vars

\* the load failed with no file present; a parseable primary file has
\* appeared since and the session still shows the error
LoadFailureTerminalWitness ==
    /\ outcome = "load_error"
    /\ error = FileNotFound
    /\ reads = 0
    /\ files[Primary].kind = "csv"
    /\ files[Primary].rows # <<>>

\* C8: the source file is read at most once in the process's lifetime;
\* once load_data has run, every pass returns the cached value and reads
\* nothing.
LoadOnce ==
    /\ [](reads <= 1)
    /\ [][cache.hit => reads' = reads /\ cache' = cache /\ df' = cache.df]_vars

\* the file was read once; the user has changed the criteria since, and the
\* file that was read has been replaced on disk
LoadOnceWitness ==
    /\ reads = 1
    /\ outcome = "rendered"
    /\ selected_disasters = {}
    /\ files[file_path].kind = "csv"
    /\ files[file_path].rows # df.rows

====
